---- MODULE Spec2Model ----
(***************************************************************************)
(* archdiff (src/src/main.rs): App::run audits a live root against the     *)
(* pacman database, a reference ("repo") tree and gitignore-style rules.   *)
(* The model follows run() statement by statement: the database load, the  *)
(* untracked walk, the repo-drift walk, the two par_extend passes, the     *)
(* stable sort and the report.                                             *)
(***************************************************************************)
EXTENDS Naturals, Sequences, FiniteSets

\* ------------------------------------------------------------------ bounds
\* The longest rule list read from the ignore directory.
MaxRules == 2

\* ------------------------------------------------------------- the universe
\* Paths are relative to the root (and to the repo dir): the text left after
\* the [root_len..] / [repo_len..] slice.  ROOT is the empty relative path,
\* the walked directory itself.
ROOT == ""
Paths == {"a", "d", "d/x"}
Leaves == {"a", "d/x"}

Parent(p) == IF p = "d/x" THEN "d" ELSE ROOT

Children(p) == {q \in Paths : Parent(q) = p}

\* a.cmp(b) on the path strings: byte order, "a" < "d" < "d/x".
PathRank(p) == CASE p = "a" -> 1 [] p = "d" -> 2 [] p = "d/x" -> 3 [] OTHER -> 0

\* What can sit at a path.  reg1 / reg2 are regular files whose md5 is h1 / h2,
\* unread is a regular file that cannot be opened, dangling is a symlink whose
\* target is missing, baddir is a directory whose listing fails.
Kinds == {"absent", "dir", "baddir", "reg1", "reg2", "unread", "dangling"}

LiveKindsAt(p) ==
  CASE p = "a"   -> {"absent", "reg2"}
    [] p = "d"   -> {"absent", "dir", "baddir"}
    [] p = "d/x" -> {"absent", "reg1", "reg2", "unread", "dangling"}

RepoKindsAt(p) ==
  CASE p = "a"   -> {"absent"}
    [] p = "d"   -> {"absent", "dir", "baddir"}
    [] p = "d/x" -> {"absent", "reg1", "unread"}

\* A tree is well formed when an entry exists only inside a directory.
WellFormed(t) ==
  /\ t[ROOT] = "dir"
  /\ \A p \in Paths : t[p] # "absent" => t[Parent(p)] \in {"dir", "baddir"}

LiveTrees ==
  {t \in [Paths \cup {ROOT} -> Kinds] :
     WellFormed(t) /\ \A p \in Paths : t[p] \in LiveKindsAt(p)}

\* Nothing below an unlistable reference directory is ever read, so one
\* content stands for all of them.
RepoTrees ==
  {t \in [Paths \cup {ROOT} -> Kinds] :
     /\ WellFormed(t)
     /\ \A p \in Paths : t[p] \in RepoKindsAt(p)
     /\ \A p \in Paths : t[Parent(p)] = "baddir" => t[p] = "reg1"}

\* Package file lists and backup entries name the non-directory paths; a
\* backup entry need not be in the file list of its package.
\* The hash the package database records for a backup file.
BackupHashes == {"h1"}

\* A rule of an ignore file: an anchored literal pattern, negated ("!") or not.
RuleTargets == {"d", "d/x"}
Rules == [target : RuleTargets, neg : BOOLEAN]
RuleLists == UNION {[1..n -> Rules] : n \in 0..MaxRules}

VARIABLES
  live,              \* the tree under args.root
  repo,              \* the tree under args.repo
  ignore,            \* App.ignore: the rules, in file order
  dbFiles,           \* the file names of the local database's packages
  dbBackup,          \* their backup entries, name -> recorded hash
  pc,                \* where run() stands
  pkg_files,         \* HashSet<String>
  pkg_backup_files,  \* HashMap<String, String>
  walk,              \* what the current WalkDir iterator will still yield
  pending,           \* items of the current parallel iterator not yet mapped
  all,               \* Vec<(char, String)>
  out,               \* the lines printed
  log                \* what error!() has written

vars == <<live, repo, ignore, dbFiles, dbBackup, pc, pkg_files,
          pkg_backup_files, walk, pending, all, out, log>>

inputs == <<live, repo, ignore, dbFiles, dbBackup>>

\* ------------------------------------------------------------- file system
IsDir(k) == k \in {"dir", "baddir"}

\* std::fs::metadata follows symlinks.
MetadataOk(k) == k \notin {"absent", "dangling"}

\* alpm::compute_md5sum: the digest, or failure.
Md5(k) == CASE k = "reg1" -> "h1" [] k = "reg2" -> "h2" [] OTHER -> "fail"

None == "None"

\* Faulty variant of hash_file_logged: the failure is passed on as if it were
\* a digest.
hash_file_logged_unchecked(k) == Md5(k)

\* hash_file_logged: Some(hash), or None after logging.
hash_file_logged(k) == IF Md5(k) = "fail" THEN None ELSE Md5(k)

\* ------------------------------------------------------------ the matcher
\* Gitignore::matched: the verdict of the last rule that matches the path
\* itself (parents are not looked at).  The rules modelled carry no trailing
\* slash, so is_dir, which only switches directory-only patterns, decides
\* nothing here.
LastMatch(rules, p) ==
  LET hits == {i \in 1..Len(rules) : rules[i].target = p}
  IN  IF hits = {} THEN 0 ELSE CHOOSE i \in hits : \A j \in hits : j <= i

matched(rules, p, is_dir) ==
  LET i == LastMatch(rules, p)
  IN  IF i = 0 THEN None
      ELSE IF rules[i].neg THEN "Whitelist" ELSE "Ignore"

is_none(m) == m = None
is_ignore(m) == m = "Ignore"

\* Gitignore::matched_path_or_any_parents: the path, then each parent as a
\* directory, the first verdict found.
RECURSIVE matched_path_or_any_parents(_, _, _)
matched_path_or_any_parents(rules, p, is_dir) ==
  IF p = ROOT THEN None
  ELSE LET m == matched(rules, p, is_dir)
       IN  IF m # None THEN m
           ELSE matched_path_or_any_parents(rules, Parent(p), TRUE)

\* ----------------------------------------------------------------- helpers
Perms(S) ==
  {s \in [1..Cardinality(S) -> S] : \A i, j \in DOMAIN s : i # j => s[i] # s[j]}

\* What WalkDir yields after a directory entry: its entries in directory
\* order, or one error when the listing fails.  An entry is <<"ok", path>>,
\* an error <<"err", path>>.
Listing(t, p) ==
  IF t[p] = "baddir" THEN {<<(<<"err", p>>)>>}
  ELSE {[i \in DOMAIN s |-> <<"ok", s[i]>>] :
          s \in Perms({q \in Children(p) : t[q] # "absent"})}

\* Faulty variants of the two removals: the collection is left as it was.
pkg_files_remove_forgotten(files, p) == files

pkg_backup_files_remove_forgotten(map, p) == map

\* HashSet::remove and HashMap::remove.
pkg_files_remove(files, p) == files \ {p}

pkg_backup_files_remove(map, p) ==
  [q \in {r \in DOMAIN map : r # p} |-> map[q]]

\* Faulty variant of the parallel append: a record lands on the slot of the
\* one appended before it.
ParExtendOneRacy(acc, rec) ==
  IF acc = <<>> THEN <<rec>> ELSE [acc EXCEPT ![Len(acc)] = rec]

\* Vec::push and the per-item effect of par_extend.
Push(acc, rec) == Append(acc, rec)

ParExtendOne(acc, rec) == Append(acc, rec)

\* Faulty variant of the sort's insertion: equal paths change places.
InsertUnstable(s, rec) ==
  LET before == {i \in 1..Len(s) : PathRank(s[i][2]) < PathRank(rec[2])}
      k == Cardinality(before)
  IN  SubSeq(s, 1, k) \o <<rec>> \o SubSeq(s, k + 1, Len(s))

\* slice::sort_by(|(_, a), (_, b)| a.cmp(b)): stable, keyed on the path only.
Insert(s, rec) ==
  LET before == {i \in 1..Len(s) : PathRank(s[i][2]) <= PathRank(rec[2])}
      k == Cardinality(before)
  IN  SubSeq(s, 1, k) \o <<rec>> \o SubSeq(s, k + 1, Len(s))

RECURSIVE sort_by(_)
sort_by(s) ==
  IF s = <<>> THEN <<>>
  ELSE Insert(sort_by(SubSeq(s, 1, Len(s) - 1)), s[Len(s)])

\* -------------------------------------------------------------------- Init
Init ==
  /\ live \in LiveTrees
  /\ repo \in RepoTrees
  /\ ignore \in RuleLists
  /\ dbFiles \in SUBSET Leaves
  /\ dbBackup \in UNION {[S -> BackupHashes] : S \in SUBSET Leaves}
  /\ pc = "load"
  /\ pkg_files = {}
  /\ pkg_backup_files = <<>>
  /\ walk = <<>>
  /\ pending = {}
  /\ all = <<>>
  /\ out = <<>>
  /\ log = {}

\* ----------------------------------------------------------------- actions
\* run(), lines 89-105: merge every package's files and backup entries.
Load ==
  /\ pc = "load"
  /\ pkg_files' = dbFiles
  /\ pkg_backup_files' = dbBackup
  /\ all' = <<>>
  /\ walk' = <<(<<"ok", ROOT>>)>>
  /\ pc' = "untracked"
  /\ UNCHANGED <<inputs, pending, out, log>>

\* filter_map(filter_map_error) on an Err item of either walk.
WalkError ==
  /\ pc \in {"untracked", "repo"}
  /\ walk # <<>>
  /\ Head(walk)[1] = "err"
  /\ log' = log \cup {<<pc, Head(walk)[2]>>}
  /\ walk' = Tail(walk)
  /\ UNCHANGED <<inputs, pc, pkg_files, pkg_backup_files, pending, all, out>>

\* filter_entry's predicate on a live entry.
filter_entry(p) == is_none(matched(ignore, p, IsDir(live[p])))

\* One entry of the live walk: filter_entry, then the for_each closure.
UntrackedEntry ==
  /\ pc = "untracked"
  /\ walk # <<>>
  /\ Head(walk)[1] = "ok"
  /\ LET p == Head(walk)[2]
     IN  IF ~filter_entry(p)
         THEN /\ walk' = Tail(walk)
              /\ UNCHANGED <<pkg_files, all>>
         ELSE IF IsDir(live[p])
         THEN /\ \E l \in Listing(live, p) : walk' = l \o Tail(walk)
              /\ UNCHANGED <<pkg_files, all>>
         ELSE LET removed == p \in pkg_files
              IN  /\ walk' = Tail(walk)
                  /\ pkg_files' = pkg_files_remove(pkg_files, p)
                  /\ all' = IF ~removed THEN Push(all, <<"?", p>>) ELSE all
  /\ UNCHANGED <<inputs, pc, pkg_backup_files, pending, out, log>>

\* The live walk is exhausted; the reference walk starts.
UntrackedDone ==
  /\ pc = "untracked"
  /\ walk = <<>>
  /\ pc' = "repo"
  /\ walk' = <<(<<"ok", ROOT>>)>>
  /\ UNCHANGED <<inputs, pkg_files, pkg_backup_files, pending, all, out, log>>

\* One entry of the reference walk: the for_each closure of lines 131-148.
RepoEntry ==
  /\ pc = "repo"
  /\ walk # <<>>
  /\ Head(walk)[1] = "ok"
  /\ LET p == Head(walk)[2]
         repo_hash == hash_file_logged(repo[p])
         actual_hash == hash_file_logged(live[p])
     IN  IF IsDir(repo[p])
         THEN /\ \E l \in Listing(repo, p) : walk' = l \o Tail(walk)
              /\ UNCHANGED <<pkg_backup_files, all, log>>
         ELSE /\ walk' = Tail(walk)
              /\ pkg_backup_files' = pkg_backup_files_remove(pkg_backup_files, p)
              /\ IF repo_hash = None
                 THEN /\ log' = log \cup {<<"hash repo", p>>}
                      /\ UNCHANGED all
                 ELSE IF actual_hash = None
                 THEN /\ log' = log \cup {<<"hash live", p>>}
                      /\ UNCHANGED all
                 ELSE /\ all' = IF repo_hash # actual_hash
                                THEN Push(all, <<"R", p>>) ELSE all
                      /\ UNCHANGED log
  /\ UNCHANGED <<inputs, pc, pkg_files, pending, out>>

\* Faulty variant of RepoDone: the deleted pass starts while the reference
\* walk still has entries to yield.
RepoDoneEarly ==
  /\ pc = "repo"
  /\ pc' = "deleted"
  /\ pending' = pkg_files
  /\ UNCHANGED <<inputs, pkg_files, pkg_backup_files, walk, all, out, log>>

\* The reference walk is exhausted; pkg_files moves into the parallel
\* iterator of the deleted pass.
RepoDone ==
  /\ pc = "repo"
  /\ walk = <<>>
  /\ pc' = "deleted"
  /\ pending' = pkg_files
  /\ UNCHANGED <<inputs, pkg_files, pkg_backup_files, walk, all, out, log>>

\* What a filter_map closure returns for an item it drops.
NoRecord == <<>>

\* Faulty variant of the deleted pass's closure: metadata is not consulted.
DeletedRecordNoStat(p) ==
  IF is_ignore(matched(ignore, p, FALSE)) THEN NoRecord ELSE <<"D", p>>

\* The filter_map closure of the deleted pass on one item.
DeletedRecord(p) ==
  IF is_ignore(matched(ignore, p, FALSE)) THEN NoRecord
  ELSE IF ~MetadataOk(live[p]) THEN <<"D", p>> ELSE NoRecord

\* A worker maps one item of pkg_files; par_extend adds what it yields.
DeletedItem ==
  /\ pc = "deleted"
  /\ \E p \in pending :
       /\ pending' = pending \ {p}
       /\ all' = IF DeletedRecord(p) # NoRecord
                 THEN ParExtendOne(all, DeletedRecord(p)) ELSE all
  /\ UNCHANGED <<inputs, pc, pkg_files, pkg_backup_files, walk, out, log>>

\* par_extend returns; pkg_backup_files moves into the next parallel iterator.
DeletedDone ==
  /\ pc = "deleted"
  /\ pending = {}
  /\ pc' = "backup"
  /\ pending' = DOMAIN pkg_backup_files
  /\ UNCHANGED <<inputs, pkg_files, pkg_backup_files, walk, all, out, log>>

\* The filter_map closure of the backup-drift pass on one item.
BackupRecord(p, expected_hash) ==
  IF is_ignore(matched_path_or_any_parents(ignore, p, FALSE)) THEN NoRecord
  ELSE LET actual_hash == hash_file_logged(live[p])
       IN  IF actual_hash = None THEN NoRecord
           ELSE IF expected_hash = actual_hash THEN NoRecord ELSE <<"B", p>>

BackupLogs(p) ==
  IF /\ ~is_ignore(matched_path_or_any_parents(ignore, p, FALSE))
     /\ hash_file_logged(live[p]) = None
  THEN {<<"hash live", p>>} ELSE {}

BackupItem ==
  /\ pc = "backup"
  /\ \E p \in pending :
       /\ pending' = pending \ {p}
       /\ all' = IF BackupRecord(p, pkg_backup_files[p]) # NoRecord
                 THEN ParExtendOne(all, BackupRecord(p, pkg_backup_files[p]))
                 ELSE all
       /\ log' = log \cup BackupLogs(p)
  /\ UNCHANGED <<inputs, pc, pkg_files, pkg_backup_files, walk, out>>

BackupDone ==
  /\ pc = "backup"
  /\ pending = {}
  /\ pc' = "sort"
  /\ UNCHANGED <<inputs, pkg_files, pkg_backup_files, walk, pending, all, out, log>>

\* all.sort_by(...)
Sort ==
  /\ pc = "sort"
  /\ all' = sort_by(all)
  /\ pc' = "print"
  /\ UNCHANGED <<inputs, pkg_files, pkg_backup_files, walk, pending, out, log>>

\* all.iter().for_each(println!), then run() and main() return Ok(()).
Println ==
  /\ pc = "print"
  /\ out' = all
  /\ pc' = "done"
  /\ UNCHANGED <<inputs, pkg_files, pkg_backup_files, walk, pending, all, log>>

Next ==
  \/ Load
  \/ WalkError
  \/ UntrackedEntry
  \/ UntrackedDone
  \/ RepoEntry
  \/ RepoDone
  \/ DeletedItem
  \/ DeletedDone
  \/ BackupItem
  \/ BackupDone
  \/ Sort
  \/ Println

Spec == Init /\ [][Next]_vars

\* ------------------------------------------------- what the claims speak of
RECURSIVE Ancestors(_)
Ancestors(p) ==
  IF Parent(p) = ROOT THEN {} ELSE {Parent(p)} \cup Ancestors(Parent(p))

\* The walk of tree t yields the entry at p: it exists, every directory above
\* it could be listed and, when the walk filters, nothing on the way matched.
Visited(t, p, filtered) ==
  /\ t[p] # "absent"
  /\ \A q \in Ancestors(p) : t[q] = "dir"
  /\ filtered =>
       \A q \in Ancestors(p) \cup {p} : is_none(matched(ignore, q, IsDir(t[q])))

IsRegular(k) == k \in {"reg1", "reg2", "unread"}

\* Excluded by the rules: the last rule matching the path marks it ignored,
\* or the path lies beneath a directory so marked.
Excluded(p) ==
  \/ is_ignore(matched(ignore, p, IsDir(live[p])))
  \/ \E q \in Ancestors(p) : is_ignore(matched(ignore, q, TRUE))

Tags(s, p) == {s[i][1] : i \in {j \in DOMAIN s : s[j][2] = p}}

Has(s, rec) == \E i \in DOMAIN s : s[i] = rec

Records(s) == {s[i] : i \in DOMAIN s}

AfterWalks == pc \in {"deleted", "backup", "sort", "print", "done"}

\* The records of a run as a function of its inputs alone.
ExpUntracked ==
  {<<"?", p>> : p \in {q \in Paths :
     Visited(live, q, TRUE) /\ ~IsDir(live[q]) /\ q \notin dbFiles}}

ExpRepo ==
  {<<"R", p>> : p \in {q \in Paths :
     /\ Visited(repo, q, FALSE) /\ ~IsDir(repo[q])
     /\ Md5(repo[q]) # "fail" /\ Md5(live[q]) # "fail"
     /\ Md5(repo[q]) # Md5(live[q])}}

ExpDeleted ==
  {<<"D", p>> : p \in {q \in dbFiles :
     /\ ~(Visited(live, q, TRUE) /\ ~IsDir(live[q]))
     /\ ~is_ignore(matched(ignore, q, FALSE))
     /\ ~MetadataOk(live[q])}}

ExpBackup ==
  {<<"B", p>> : p \in {q \in DOMAIN dbBackup :
     /\ ~(Visited(repo, q, FALSE) /\ ~IsDir(repo[q]))
     /\ ~is_ignore(matched_path_or_any_parents(ignore, q, FALSE))
     /\ Md5(live[q]) # "fail"
     /\ Md5(live[q]) # dbBackup[q]}}

ExpAll == ExpUntracked \cup ExpRepo \cup ExpDeleted \cup ExpBackup

\* The order of the report: by path, and for one path in the order of the
\* passes that pushed the records.
TagRank(c) == CASE c = "?" -> 1 [] c = "R" -> 2 [] c = "D" -> 3 [] c = "B" -> 4

RecLess(r1, r2) ==
  \/ PathRank(r1[2]) < PathRank(r2[2])
  \/ PathRank(r1[2]) = PathRank(r2[2]) /\ TagRank(r1[1]) < TagRank(r2[1])

RECURSIVE Canonical(_)
Canonical(S) ==
  IF S = {} THEN <<>>
  ELSE LET m == CHOOSE r \in S : \A r2 \in S \ {r} : RecLess(r, r2)
       IN  <<m>> \o Canonical(S \ {m})

\* ------------------------------------------------------------------ claims

\* C1: a path the rules exclude (itself matched as ignored, or beneath a
\* directory matched as ignored) never appears in the output with tag '?',
\* 'D' or 'B'.
C1_ExclusionCorrectness ==
  \A i \in DOMAIN out :
    out[i][1] \in {"?", "D", "B"} => ~Excluded(out[i][2])

C3_RegularFileObserved ==
  pc \notin {"load", "untracked"} =>
    \A p \in dbFiles :
      p \notin pkg_files <=> (Visited(live, p, TRUE) /\ IsRegular(live[p]))

\* C3 (amended): after the untracked pass an owned path is absent from the
\* set iff the walk yielded an entry that is not a directory (regular file,
\* symlink or other) at its live path.
C3_NonDirectoryObserved ==
  pc \notin {"load", "untracked"} =>
    \A p \in dbFiles :
      p \notin pkg_files <=> (Visited(live, p, TRUE) /\ ~IsDir(live[p]))

\* C3 witness: the walk met a symlink at an owned path and removed the path.
C3_Witness ==
  /\ pc = "repo"
  /\ \E p \in dbFiles : p \notin pkg_files /\ live[p] = "dangling"

\* C4: the output holds '? P' iff a non-directory exists at root + P, P is not
\* owned and P is not excluded (matched by no rule or only by a negated one
\* counts as not excluded).
C4_UntrackedIff ==
  pc = "done" =>
    \A p \in Paths :
      Has(out, <<"?", p>>) <=>
        /\ live[p] # "absent" /\ ~IsDir(live[p])
        /\ p \notin dbFiles
        /\ ~Excluded(p)

\* C5: the output holds 'D P' iff P is owned, not excluded and metadata at
\* root + P cannot be read; a path left in the set whose metadata can be read
\* gets no record from the deleted pass.
C5_DeletedIff ==
  pc = "done" =>
    \A p \in Paths :
      Has(out, <<"D", p>>) <=>
        /\ p \in dbFiles
        /\ ~Excluded(p)
        /\ ~MetadataOk(live[p])

\* C6: the report is a function of the file system, the database and the
\* rules alone: whatever order the walks and the parallel iterators took, the
\* lines are the run's records by path and, for one path, in pass order.
C6_Deterministic ==
  pc = "done" => out = Canonical(ExpAll)

\* C6 witness: a report with two records for one path and records of one
\* parallel pass for two paths.
C6_Witness ==
  /\ pc = "done"
  /\ \E p \in Paths : Cardinality(Tags(out, p)) = 2
  /\ \E p, q \in Paths : p # q /\ Has(out, <<"B", p>>) /\ Has(out, <<"B", q>>)

\* C7: parallel accumulation loses and duplicates nothing: at every point of
\* passes 3 and 4 the collection is the records of passes 1 and 2 plus one
\* record for each mapped item that yielded one, each (tag, path) once.
C7_NoLossNoDuplicate ==
  /\ \A i, j \in DOMAIN all : i # j => all[i] # all[j]
  /\ pc = "deleted" =>
       Records(all) = ExpUntracked \cup ExpRepo
         \cup ({DeletedRecord(p) : p \in pkg_files \ pending} \ {NoRecord})
  /\ pc = "backup" =>
       Records(all) = ExpUntracked \cup ExpRepo
         \cup ({DeletedRecord(p) : p \in pkg_files} \ {NoRecord})
         \cup ({BackupRecord(p, pkg_backup_files[p]) :
                  p \in DOMAIN pkg_backup_files \ pending} \ {NoRecord})
  /\ pc \in {"sort", "print", "done"} =>
       Records(all) = ExpUntracked \cup ExpRepo
         \cup ({DeletedRecord(p) : p \in pkg_files} \ {NoRecord})
         \cup ({BackupRecord(p, pkg_backup_files[p]) :
                  p \in DOMAIN pkg_backup_files} \ {NoRecord})

\* C7 witness: the backup-drift pass added two records to one pushed by
\* the untracked walk.
C7_Witness ==
  /\ pc = "sort"
  /\ Cardinality({i \in DOMAIN all : all[i][1] = "B"}) = 2
  /\ \E i \in DOMAIN all : all[i][1] = "?"

\* C8: a hash that cannot be computed and a walk entry that yields an error
\* give no record for that path in that pass, stop nothing, and the run goes
\* on through every entry and pass to the printed report.
C8_ErrorsContained ==
  /\ \A i \in DOMAIN all :
       /\ all[i][1] = "R" =>
            Md5(repo[all[i][2]]) # "fail" /\ Md5(live[all[i][2]]) # "fail"
       /\ all[i][1] = "B" => Md5(live[all[i][2]]) # "fail"
  /\ \A p \in Paths :
       /\ <<"untracked", p>> \in log =>
            \A q \in {p} \cup Children(p) : ~Has(all, <<"?", q>>)
       /\ <<"repo", p>> \in log =>
            \A q \in {p} \cup Children(p) : ~Has(all, <<"R", q>>)
  /\ pc # "done" => ENABLED Next
  /\ pc = "done" => Records(out) = ExpAll

\* C8 witness: a run that met a walk error and a failed hash and printed a
\* report with records of other paths.
C8_Witness ==
  /\ pc = "done"
  /\ \E p \in Paths : <<"untracked", p>> \in log
  /\ \E p \in Paths : <<"hash repo", p>> \in log
  /\ out # <<>>

\* C9 (as stated): no path appears under two different tags.
C9_TagsExclusive ==
  \A p \in Paths : Cardinality(Tags(out, p)) <= 1

\* C9 (amended): 'D' excludes every other tag for the path and 'R' excludes
\* 'B'; '?' may stand beside 'R' or 'B'.
C9_DeletedAloneRepoNotBackup ==
  \A p \in Paths :
    /\ "D" \in Tags(all, p) => Tags(all, p) = {"D"}
    /\ ~({"R", "B"} \subseteq Tags(all, p))
    /\ "D" \in Tags(out, p) => Tags(out, p) = {"D"}
    /\ ~({"R", "B"} \subseteq Tags(out, p))

\* C9 witness: a path reported 'D' although the reference tree and the
\* backup entries hold it too.
C9_Witness ==
  /\ pc = "done"
  /\ \E p \in DOMAIN dbBackup :
       /\ Has(out, <<"D", p>>)
       /\ Visited(repo, p, FALSE) /\ ~IsDir(repo[p])

\* C10: the owned set changes only while it is loaded and walked, the backup
\* map only while it is loaded and the reference tree walked; an item of pass
\* 3 or 4 is mapped only when both walks have ended and both collections have
\* their final content; the report is printed after all four passes.
C10_PassOrder ==
  [][ /\ pkg_files' # pkg_files => pc \in {"load", "untracked"}
      /\ pkg_backup_files' # pkg_backup_files => pc \in {"load", "repo"}
      /\ pending' # pending /\ pending' \subseteq pending =>
           /\ walk = <<>>
           /\ pkg_files =
                {p \in dbFiles : ~(Visited(live, p, TRUE) /\ ~IsDir(live[p]))}
           /\ DOMAIN pkg_backup_files =
                {p \in DOMAIN dbBackup :
                   ~(Visited(repo, p, FALSE) /\ ~IsDir(repo[p]))}
      /\ out' # out =>
           /\ walk = <<>> /\ pending = {}
           /\ Records(all) = ExpAll
    ]_vars

\* C10 witness: a finished run in which both walks shrank their collection
\* and the deleted pass reported a path.
C10_Witness ==
  /\ pc = "done"
  /\ pkg_files # dbFiles
  /\ DOMAIN pkg_backup_files # DOMAIN dbBackup
  /\ \E i \in DOMAIN out : out[i][1] = "D"

====
